---- MODULE Spec2Model ----
(***************************************************************************)
(* State-machine model of xmpp-bot: the XmppBot singleton (bot.py), its    *)
(* HandlerRegistry (handlers.py) and the Settings allow-list check         *)
(* (config/settings.py).                                                   *)
(*                                                                         *)
(* Everything runs on one asyncio event loop, so a step of the model is    *)
(* the code a coroutine or callback runs between two suspension points     *)
(* (await asyncio.sleep, await get_roster, await of an async handler).     *)
(* The slixmpp client is the environment: it delivers events and accepts   *)
(* or rejects calls.                                                       *)
(*                                                                         *)
(* Strings are sequences of one-character strings.  Time is counted in     *)
(* ticks of 0.1 s, the poll interval of the connect wait; connect_timeout  *)
(* is held in the same unit.                                               *)
(***************************************************************************)
EXTENDS Integers, Sequences, FiniteSets, TLC

(* ------------------------------ bounds -------------------------------- *)
\* instances of XmppBot constructed in one run
MaxInstances == 2
\* ClientXMPP objects one instance constructs
MaxClients == 2
\* initialize() coroutines that may be in flight at once
MaxInitTasks == 2
\* ticks a single asyncio.sleep(0.1) may take (a sleep may overshoot)
MaxSleepTicks == 2
MaxFlushTimeout == 2

(* ------------------------------ strings ------------------------------- *)
SLASH == "/"

RECURSIVE rstrip(_, _)
\* str.rstrip(ch)
rstrip(s, ch) ==
    IF Len(s) > 0 /\ s[Len(s)] = ch THEN rstrip(SubSeq(s, 1, Len(s) - 1), ch) ELSE s

RECURSIVE lstrip(_, _)
\* str.lstrip(ch)
lstrip(s, ch) ==
    IF Len(s) > 0 /\ s[1] = ch THEN lstrip(Tail(s), ch) ELSE s

RECURSIVE split0(_, _)
\* s.split(ch)[0]: the part of s before the first ch
split0(s, ch) ==
    IF Len(s) = 0 \/ s[1] = ch THEN <<>> ELSE <<s[1]>> \o split0(Tail(s), ch)

BotJid == <<"b", "@", "d">>
UserJid == <<"u", "@", "d">>
StrangerJid == <<"s", "@", "d">>

\* a slixmpp JID: JID.bare and the resource; str(JID) is JidStr
JidStr(j) == IF j.resource = <<>> THEN j.bare ELSE j.bare \o <<SLASH>> \o j.resource

Senders ==
    { [bare |-> UserJid, resource |-> <<>>], [bare |-> UserJid, resource |-> <<"r">>],
      [bare |-> StrangerJid, resource |-> <<>>] }

Recipients == {UserJid, StrangerJid}
Bodies == {<<>>, <<"h">>}
MessageTexts == {<<"h">>}
MsgTypes == {"chat", "normal", "groupchat"}
Paths == {<<"p">>, <<SLASH, "p">>}

(* ------------------------------ Settings ------------------------------ *)
\* allowed_jids is None (unset) or a frozenset of addresses
NoAllowList == [unset |-> TRUE, jids |-> {}]
AllowList(S) == [unset |-> FALSE, jids |-> S]

\* the Settings values handed to initialize()
SettingsTable ==
    << [jid |-> BotJid, default_receiver |-> UserJid, base_url |-> <<"w">>,
        allowed_jids |-> NoAllowList, connect_timeout |-> 1],
       [jid |-> BotJid, default_receiver |-> UserJid, base_url |-> <<"w", SLASH>>,
        allowed_jids |-> AllowList({UserJid}), connect_timeout |-> 2] >>

SettingsIds == 1..Len(SettingsTable)
\* _settings = 0 is None
NoSettings == 0

is_jid_allowed_AllowAll(s, jid) == TRUE
is_jid_allowed_NoSplit(s, jid) ==
    IF s.allowed_jids.unset THEN TRUE ELSE jid \in s.allowed_jids.jids
\* Settings.is_jid_allowed
is_jid_allowed(s, jid) ==
    IF s.allowed_jids.unset THEN TRUE
    ELSE LET bare_jid == split0(jid, SLASH)
         IN  bare_jid \in s.allowed_jids.jids

AT == "@"

RECURSIVE JidMatch(_, _)
\* JID_PATTERN.match(s) for ^[^@]+@[^@/]+(?:/[^@]+)?$, read left to right; q is
\* the part of the pattern reached: "local0"/"local" in [^@]+, "domain0"/"domain"
\* in [^@/]+, "res0"/"res" in the optional /[^@]+
JidMatch(s, q) ==
    IF s = <<>> THEN q \in {"domain", "res"}
    ELSE LET c == Head(s)
             r == Tail(s)
         IN  CASE q = "local0" -> c # AT /\ JidMatch(r, "local")
               [] q = "local" -> IF c = AT THEN JidMatch(r, "domain0")
                                 ELSE JidMatch(r, "local")
               [] q = "domain0" -> c \notin {AT, SLASH} /\ JidMatch(r, "domain")
               [] q = "domain" -> IF c = SLASH THEN JidMatch(r, "res0")
                                  ELSE c # AT /\ JidMatch(r, "domain")
               [] q = "res0" -> c # AT /\ JidMatch(r, "res")
               [] OTHER -> c # AT /\ JidMatch(r, "res")

\* _validate_jid: "None" or the error it raises
_validate_jid(jid) == IF JidMatch(jid, "local0") THEN "None" ELSE "ValueError"

Settings__post_init__NoReceiverCheck(jid, password, default_receiver) ==
    IF jid = <<>> THEN [err |-> "ValueError", msg |-> "JID is required"]
    ELSE IF password = <<>> THEN [err |-> "ValueError", msg |-> "Password is required"]
    ELSE IF _validate_jid(jid) # "None"
    THEN [err |-> _validate_jid(jid), msg |-> "Invalid JID format"]
    ELSE [err |-> "None", msg |-> "None"]
\* Settings.__post_init__: how the construction of a Settings ends
Settings__post_init__(jid, password, default_receiver) ==
    IF jid = <<>> THEN [err |-> "ValueError", msg |-> "JID is required"]
    ELSE IF password = <<>> THEN [err |-> "ValueError", msg |-> "Password is required"]
    ELSE IF default_receiver = <<>>
    THEN [err |-> "ValueError", msg |-> "Default receiver is required"]
    ELSE IF _validate_jid(jid) # "None"
    THEN [err |-> _validate_jid(jid), msg |-> "Invalid JID format"]
    ELSE IF _validate_jid(default_receiver) # "None"
    THEN [err |-> _validate_jid(default_receiver), msg |-> "Invalid JID format"]
    ELSE [err |-> "None", msg |-> "None"]

\* the ways a Settings is made: Settings(...), Settings.from_env, Settings.from_dict;
\* the two class methods read the three strings ("" when missing) and call cls(...)
Constructors == {"Settings", "from_env", "from_dict"}
\* addresses given as jid or default_receiver
JidInputs ==
    { <<>>, BotJid, UserJid, UserJid \o <<SLASH, "r">>, <<"u">>, <<AT, "d">>,
      <<"u", AT>>, <<"u", AT, "d", SLASH>>, <<"u", AT, AT, "d">> }
Passwords == {<<>>, <<"p">>}
\* allow-lists and candidate addresses given to is_jid_allowed
AllowLists ==
    { NoAllowList, AllowList({}), AllowList({UserJid}),
      AllowList({UserJid \o <<SLASH, "r">>}) }
Candidates ==
    { <<>>, UserJid, UserJid \o <<SLASH, "r">>, UserJid \o <<SLASH, "r", SLASH, "x">>,
      UserJid \o <<SLASH>>, StrangerJid, StrangerJid \o <<SLASH, "r">> }

(* --------------------------- handler mappings ------------------------- *)
\* a dict name -> handler, in insertion order: a sequence of entries
Names == {"a", "b"}
Handlers == {"h1", "h2"}
Kinds == {"message", "presence"}

EmptyDict == <<>>
Has(d, name) == \E i \in 1..Len(d) : d[i].name = name
Get(d, name) == d[CHOOSE i \in 1..Len(d) : d[i].name = name].h
SetItem_KeepOld(d, name, h) ==
    IF Has(d, name) THEN d ELSE Append(d, [name |-> name, h |-> h])
\* d[name] = h : an existing key keeps its place
SetItem(d, name, h) ==
    IF Has(d, name)
    THEN [i \in 1..Len(d) |-> IF d[i].name = name THEN [name |-> name, h |-> h] ELSE d[i]]
    ELSE Append(d, [name |-> name, h |-> h])
\* del d[name]
DelItem(d, name) == SelectSeq(d, LAMBDA e : e.name # name)
KeysOf(d) == { d[i].name : i \in 1..Len(d) }


(* --------------------------- HandlerRegistry -------------------------- *)
\* the two mappings of a HandlerRegistry, by kind
EmptyRegistry == [message |-> EmptyDict, presence |-> EmptyDict]

\* add_message_handler / add_presence_handler: [reg, err]
Registry_add_NoCheck(reg, kind, name, h) ==
    [reg |-> [reg EXCEPT ![kind] = SetItem(@, name, h)], err |-> "None"]
Registry_add(reg, kind, name, h) ==
    IF Has(reg[kind], name)
    THEN [reg |-> reg, err |-> "HandlerExistsError"]
    ELSE [reg |-> [reg EXCEPT ![kind] = SetItem(@, name, h)], err |-> "None"]

\* remove_message_handler / remove_presence_handler: [reg, err]
Registry_remove(reg, kind, name) ==
    IF ~Has(reg[kind], name)
    THEN [reg |-> reg, err |-> "HandlerNotFoundError"]
    ELSE [reg |-> [reg EXCEPT ![kind] = DelItem(@, name)], err |-> "None"]

\* get_message_handlers / get_presence_handlers: a list copied from the mapping
Registry_get_handlers(reg, kind) == reg[kind]

Registry_clear(reg) == EmptyRegistry

(* ------------------------------- state -------------------------------- *)
VARIABLES
    cls_instance,      \* XmppBot._instance: 0 is None, else the id of the object
    created,           \* XmppBot objects constructed so far; the newest is the one modelled
    _init_done,
    _settings,         \* 0 is None, else an index of SettingsTable
    _client,           \* 0 is None, else the id of a ClientXMPP object
    _initialized,
    _connected,
    _session_started,
    _auth_error,       \* FALSE is None
    _handlers,         \* the HandlerRegistry
    _async_message_handlers,
    _async_presence_handlers,
    nclients,          \* ClientXMPP objects this instance has constructed
    open,              \* clients on which connect() was called and disconnect() was not
    tasks,             \* the initialize() coroutines, suspended in the connect wait or idle
    roster_wait,       \* a session-started callback is suspended in get_roster()
    flushing,          \* the flush() coroutine, suspended in its poll loop or idle
    disp,              \* the message/presence callback in progress
    last,              \* the operation of the last step and how it ended
    out                \* the calls the last step made on the transport

singletonVars == <<cls_instance, created, _init_done>>
flagVars == <<_initialized, _connected, _session_started, _auth_error>>
handlerVars == <<_handlers, _async_message_handlers, _async_presence_handlers>>
botVars == <<_settings, _client, flagVars, handlerVars>>
envVars == <<nclients, open>>
procVars == <<tasks, roster_wait, flushing, disp>>
vars == <<singletonVars, botVars, envVars, procVars, last, out>>

NoClient == 0
IdleTask == [pc |-> "idle", elapsed |-> 0, timeout |-> 0, opened |-> 0]
TaskIds == 1..MaxInitTasks
IdleFlush == [pc |-> "idle", elapsed |-> 0, timeout |-> 0]
IdleDisp ==
    [pc |-> "idle", kind |-> "none", why |-> "none", sender |-> <<>>, bare |-> <<>>,
     body |-> <<>>, settings0 |-> 0, sync0 |-> <<>>, async0 |-> <<>>,
     sync_called |-> <<>>, async_called |-> <<>>, called_h |-> <<>>,
     pos |-> 0, di_used |-> 0,
     mutated |-> FALSE, caught |-> FALSE, err |-> "None"]

Result(op, err, to, val) ==
    [op |-> op, err |-> err, to |-> to, val |-> val, cause |-> "None"]
Call(call, client, to, body, type) ==
    [call |-> call, client |-> client, to |-> to, body |-> body, type |-> type]
Returned(op) == Result(op, "None", <<>>, 0)

\* the object exists and no callback is at its return (see _on_event_return)
Ready == created > 0 /\ disp.pc # "done"

(* ------------------------------ singleton ----------------------------- *)
\* XmppBot.__init__: runs on every XmppBot() call, guarded by _init_done
bot__init__Unguarded(done) ==
    /\ _init_done' = TRUE
    /\ _settings' = NoSettings /\ _client' = NoClient
    /\ _initialized' = FALSE /\ _connected' = FALSE
    /\ _session_started' = FALSE /\ _auth_error' = FALSE
    /\ _handlers' = EmptyRegistry
    /\ _async_message_handlers' = EmptyDict
    /\ _async_presence_handlers' = EmptyDict
bot__init__(done) ==
    IF done
    THEN UNCHANGED <<_init_done, botVars>>
    ELSE /\ _init_done' = TRUE
         /\ _settings' = NoSettings /\ _client' = NoClient
         /\ _initialized' = FALSE /\ _connected' = FALSE
         /\ _session_started' = FALSE /\ _auth_error' = FALSE
         /\ _handlers' = EmptyRegistry
         /\ _async_message_handlers' = EmptyDict
         /\ _async_presence_handlers' = EmptyDict

\* XmppBot.get_instance() = cls(): __new__ then __init__.  A new object starts
\* with no client and no coroutine of its own; the model follows it from here.
get_instance ==
    /\ disp.pc # "done"
    /\ IF cls_instance = 0
       THEN /\ created < MaxInstances
            /\ created' = created + 1
            /\ cls_instance' = created + 1
            /\ bot__init__(FALSE)
            /\ nclients' = 0 /\ open' = {}
            /\ tasks' = [t \in TaskIds |-> IdleTask]
            /\ roster_wait' = FALSE /\ flushing' = IdleFlush /\ disp' = IdleDisp
       ELSE /\ bot__init__(_init_done)
            /\ UNCHANGED <<cls_instance, created, envVars, procVars>>
    /\ last' = Result("get_instance", "None", <<>>, cls_instance')
    /\ out' = <<>>

(* ------------------------------ disconnect ---------------------------- *)
\* the body of disconnect(); close_raises: the transport's disconnect() raises
disconnect_body_KeepHandlers(close_raises) ==
    IF ~_initialized
    THEN /\ UNCHANGED <<botVars, open>>
         /\ out' = <<>>
    ELSE /\ IF _client # NoClient /\ _connected
            THEN /\ out' = <<Call("disconnect", _client, <<>>, <<>>, "")>>
                 /\ open' = IF close_raises THEN open ELSE open \ {_client}
            ELSE /\ out' = <<>>
                 /\ open' = open
         /\ _connected' = FALSE
         /\ _initialized' = FALSE
         /\ _session_started' = FALSE
         /\ _client' = NoClient
         /\ UNCHANGED <<_settings, _auth_error, handlerVars>>
disconnect_body_NoGuard(close_raises) ==
    /\ IF _client # NoClient /\ _connected
       THEN /\ out' = <<Call("disconnect", _client, <<>>, <<>>, "")>>
            /\ open' = IF close_raises THEN open ELSE open \ {_client}
       ELSE /\ out' = <<>>
            /\ open' = open
    /\ _connected' = FALSE
    /\ _initialized' = FALSE
    /\ _session_started' = FALSE
    /\ _client' = NoClient
    /\ _handlers' = Registry_clear(_handlers)
    /\ _async_message_handlers' = EmptyDict
    /\ _async_presence_handlers' = EmptyDict
    /\ UNCHANGED <<_settings, _auth_error>>
disconnect_body(close_raises) ==
    IF ~_initialized
    THEN /\ UNCHANGED <<botVars, open>>
         /\ out' = <<>>
    ELSE /\ IF _client # NoClient /\ _connected
            THEN /\ out' = <<Call("disconnect", _client, <<>>, <<>>, "")>>
                 /\ open' = IF close_raises THEN open ELSE open \ {_client}
            ELSE /\ out' = <<>>
                 /\ open' = open
         /\ _connected' = FALSE
         /\ _initialized' = FALSE
         /\ _session_started' = FALSE
         /\ _client' = NoClient
         /\ _handlers' = Registry_clear(_handlers)
         /\ _async_message_handlers' = EmptyDict
         /\ _async_presence_handlers' = EmptyDict
         /\ UNCHANGED <<_settings, _auth_error>>

AsyncDict(kind) ==
    IF kind = "message" THEN _async_message_handlers ELSE _async_presence_handlers

\* the callback in progress iterates the live async mapping of its kind: note
\* when a step changes the keys of that mapping (new_dict is its next value)
TrackDisp(kind, new_dict) ==
    IF disp.pc = "awaiting" /\ disp.kind = kind /\ KeysOf(new_dict) # KeysOf(AsyncDict(kind))
    THEN [disp EXCEPT !.mutated = TRUE]
    ELSE disp

\* a dispatch in progress sees its mapping cleared
DispAfterClear ==
    IF disp.pc = "awaiting" THEN TrackDisp(disp.kind, EmptyDict) ELSE disp

disconnect ==
    /\ Ready
    /\ \E close_raises \in BOOLEAN : disconnect_body(close_raises)
    /\ disp' = IF _initialized THEN DispAfterClear ELSE disp
    /\ last' = Returned("disconnect")
    /\ UNCHANGED <<singletonVars, nclients, tasks, roster_wait, flushing>>

\* shutdown(): legacy alias
shutdown ==
    /\ Ready
    /\ \E close_raises \in BOOLEAN : disconnect_body(close_raises)
    /\ disp' = IF _initialized THEN DispAfterClear ELSE disp
    /\ last' = Returned("shutdown")
    /\ UNCHANGED <<singletonVars, nclients, tasks, roster_wait, flushing>>

\* XmppBot.reset_instance(): disconnect under suppress(Exception), then forget
reset_instance ==
    /\ Ready
    /\ IF cls_instance # 0
       THEN /\ \E close_raises \in BOOLEAN : disconnect_body(close_raises)
            /\ disp' = IF _initialized THEN DispAfterClear ELSE disp
            /\ cls_instance' = 0
       ELSE /\ UNCHANGED <<cls_instance, botVars, open, disp>>
            /\ out' = <<>>
    /\ last' = Returned("reset_instance")
    /\ UNCHANGED <<created, _init_done, nclients, tasks, roster_wait, flushing>>


(* ------------------------- initialize / _connect ---------------------- *)
FreeTasks == { t \in TaskIds : tasks[t].pc = "idle" }
MinOf(S) == CHOOSE x \in S : \A y \in S : x <= y

\* initialize(settings) up to its first suspension: the guard, then _connect
\* creates the client, resets the two markers, calls connect() and enters the
\* wait loop (both markers were just reset, so the loop is entered).
initialize_NoGuard(s) ==
    /\ Ready
    /\ nclients < MaxClients /\ FreeTasks # {}
    /\ LET t == MinOf(FreeTasks)
           c == nclients + 1
       IN  /\ _settings' = s
           /\ _client' = c
           /\ nclients' = c
           /\ open' = open \cup {c}
           /\ _session_started' = FALSE
           /\ _auth_error' = FALSE
           /\ tasks' = [tasks EXCEPT ![t] =
                  [pc |-> "wait", elapsed |-> 0,
                   timeout |-> SettingsTable[s].connect_timeout, opened |-> c]]
           /\ last' = Result("initialize", "suspended", <<>>, t)
           /\ out' = <<Call("connect", c, <<>>, <<>>, "")>>
           /\ UNCHANGED <<_initialized, _connected, handlerVars>>
    /\ UNCHANGED <<singletonVars, roster_wait, flushing, disp>>
initialize_KeepMarkers(s) ==
    /\ Ready
    /\ IF _initialized
       THEN /\ last' = Result("initialize", "AlreadyInitializedError", <<>>, 0)
            /\ out' = <<>>
            /\ UNCHANGED <<botVars, envVars, tasks>>
       ELSE /\ nclients < MaxClients /\ FreeTasks # {}
            /\ LET t == MinOf(FreeTasks)
                   c == nclients + 1
               IN  /\ _settings' = s
                   /\ _client' = c
                   /\ nclients' = c
                   /\ open' = open \cup {c}
                   /\ tasks' = [tasks EXCEPT ![t] =
                          [pc |-> "wait", elapsed |-> 0,
                           timeout |-> SettingsTable[s].connect_timeout, opened |-> c]]
                   /\ last' = Result("initialize", "suspended", <<>>, t)
                   /\ out' = <<Call("connect", c, <<>>, <<>>, "")>>
                   /\ UNCHANGED <<_initialized, _connected, _session_started, _auth_error,
                                  handlerVars>>
    /\ UNCHANGED <<singletonVars, roster_wait, flushing, disp>>
initialize(s) ==
    /\ Ready
    /\ IF _initialized
       THEN /\ last' = Result("initialize", "AlreadyInitializedError", <<>>, 0)
            /\ out' = <<>>
            /\ UNCHANGED <<botVars, envVars, tasks>>
       ELSE /\ nclients < MaxClients /\ FreeTasks # {}
            /\ LET t == MinOf(FreeTasks)
                   c == nclients + 1
               IN  /\ _settings' = s
                   /\ _client' = c
                   /\ nclients' = c
                   /\ open' = open \cup {c}
                   /\ _session_started' = FALSE
                   /\ _auth_error' = FALSE
                   /\ tasks' = [tasks EXCEPT ![t] =
                          [pc |-> "wait", elapsed |-> 0,
                           timeout |-> SettingsTable[s].connect_timeout, opened |-> c]]
                   /\ last' = Result("initialize", "suspended", <<>>, t)
                   /\ out' = <<Call("connect", c, <<>>, <<>>, "")>>
                   /\ UNCHANGED <<_initialized, _connected, handlerVars>>
    /\ UNCHANGED <<singletonVars, roster_wait, flushing, disp>>

\* one turn of the wait loop of _connect in task t: asyncio.sleep(0.1) returns
\* after d ticks, the deadline is tested, then the loop condition; on leaving
\* the loop _connect ends and initialize sets the initialized flag.
\* The elapsed time is kept up to timeout + 1: all later values act alike.
_connect_poll_ClearClient(t, d) ==
    /\ Ready
    /\ tasks[t].pc = "wait"
    /\ LET timeout == tasks[t].timeout
           e == IF tasks[t].elapsed + d > timeout THEN timeout + 1
                ELSE tasks[t].elapsed + d
       IN  IF e > timeout
           THEN /\ tasks' = [tasks EXCEPT ![t] = IdleTask]
                /\ IF _client = NoClient
                   THEN /\ last' = Result("initialize", "AttributeError", <<>>, t)
                        /\ out' = <<>>
                        /\ open' = open
                   ELSE /\ last' = Result("initialize", "ConnectionError", <<>>, timeout)
                        /\ out' = <<Call("disconnect", _client, <<>>, <<>>, "")>>
                        /\ open' = open \ {_client}
                /\ _client' = NoClient
                /\ UNCHANGED <<_settings, flagVars, handlerVars>>
           ELSE IF ~_session_started /\ ~_auth_error
           THEN /\ tasks' = [tasks EXCEPT ![t].elapsed = e]
                /\ last' = Result("initialize", "suspended", <<>>, t)
                /\ out' = <<>>
                /\ UNCHANGED <<botVars, open>>
           ELSE IF _auth_error
           THEN /\ tasks' = [tasks EXCEPT ![t] = IdleTask]
                /\ last' = Result("initialize", "AuthenticationError",
                                  SettingsTable[_settings].jid, 0)
                /\ out' = <<>>
                /\ UNCHANGED <<botVars, open>>
           ELSE /\ tasks' = [tasks EXCEPT ![t] = IdleTask]
                /\ _connected' = TRUE
                /\ _initialized' = TRUE
                /\ last' = Result("initialize", "None", <<>>, t)
                /\ out' = <<>>
                /\ UNCHANGED <<_settings, _client, _session_started, _auth_error,
                               handlerVars, open>>
    /\ UNCHANGED <<singletonVars, nclients, roster_wait, flushing, disp>>
_connect_poll(t, d) ==
    /\ Ready
    /\ tasks[t].pc = "wait"
    /\ LET timeout == tasks[t].timeout
           e == IF tasks[t].elapsed + d > timeout THEN timeout + 1
                ELSE tasks[t].elapsed + d
       IN  IF e > timeout
           THEN /\ tasks' = [tasks EXCEPT ![t] = IdleTask]
                /\ IF _client = NoClient
                   THEN /\ last' = Result("initialize", "AttributeError", <<>>, t)
                        /\ out' = <<>>
                        /\ open' = open
                   ELSE /\ last' = Result("initialize", "ConnectionError", <<>>, timeout)
                        /\ out' = <<Call("disconnect", _client, <<>>, <<>>, "")>>
                        /\ open' = open \ {_client}
                /\ UNCHANGED <<botVars>>
           ELSE IF ~_session_started /\ ~_auth_error
           THEN /\ tasks' = [tasks EXCEPT ![t].elapsed = e]
                /\ last' = Result("initialize", "suspended", <<>>, t)
                /\ out' = <<>>
                /\ UNCHANGED <<botVars, open>>
           ELSE IF _auth_error
           THEN /\ tasks' = [tasks EXCEPT ![t] = IdleTask]
                /\ last' = Result("initialize", "AuthenticationError",
                                  SettingsTable[_settings].jid, 0)
                /\ out' = <<>>
                /\ UNCHANGED <<botVars, open>>
           ELSE /\ tasks' = [tasks EXCEPT ![t] = IdleTask]
                /\ _connected' = TRUE
                /\ _initialized' = TRUE
                /\ last' = Result("initialize", "None", <<>>, t)
                /\ out' = <<>>
                /\ UNCHANGED <<_settings, _client, _session_started, _auth_error,
                               handlerVars, open>>
    /\ UNCHANGED <<singletonVars, nclients, roster_wait, flushing, disp>>

\* the settings property: tests the stored settings, not the initialized flag
settings ==
    /\ Ready
    /\ last' = IF _settings = NoSettings
               THEN Result("settings", "NotInitializedError", <<>>, 0)
               ELSE Result("settings", "None", <<>>, _settings)
    /\ out' = <<>>
    /\ UNCHANGED <<singletonVars, botVars, envVars, procVars>>

\* a Settings is constructed (or the construction raises); the bot is not involved
Settings_new(ctor, jid, password, default_receiver) ==
    /\ LET r == Settings__post_init__(jid, password, default_receiver)
       IN  last' = [Result(ctor, r.err, <<jid, password, default_receiver>>,
                           IF r.err = "None" THEN 1 ELSE 0) EXCEPT !.cause = r.msg]
    /\ out' = <<>>
    /\ UNCHANGED <<singletonVars, botVars, envVars, procVars>>

\* Settings.is_jid_allowed called on a Settings with the allow-list al
Settings_is_jid_allowed(al, jid) ==
    /\ last' = [Result("is_jid_allowed", "None", jid,
                       IF is_jid_allowed([allowed_jids |-> al], jid) THEN 1 ELSE 0)
                   EXCEPT !.cause = IF al.unset THEN "unset" ELSE "set"]
    /\ out' = <<>>
    /\ UNCHANGED <<singletonVars, botVars, envVars, procVars>>

(* --------------------------- lifecycle events ------------------------- *)
\* the client objects of this instance hold its callbacks and may deliver events
HasClient == nclients > 0

\* _on_session_start up to await get_roster()
_on_session_start ==
    /\ Ready /\ HasClient /\ ~roster_wait
    /\ IF _client = NoClient
       THEN /\ last' = Result("_on_session_start", "AssertionError", <<>>, 0)
            /\ out' = <<>>
            /\ roster_wait' = FALSE
       ELSE /\ last' = Result("_on_session_start", "suspended", <<>>, 0)
            /\ out' = <<Call("send_presence", _client, <<>>, <<>>, ""),
                        Call("get_roster", _client, <<>>, <<>>, "")>>
            /\ roster_wait' = TRUE
    /\ UNCHANGED <<singletonVars, botVars, envVars, tasks, flushing, disp>>

\* get_roster() returns, or raises out of the callback
_on_session_start_resume(roster_ok) ==
    /\ Ready /\ roster_wait
    /\ roster_wait' = FALSE
    /\ IF roster_ok
       THEN /\ _session_started' = TRUE
            /\ last' = Returned("_on_session_start")
       ELSE /\ _session_started' = _session_started
            /\ last' = Result("_on_session_start", "TransportError", <<>>, 0)
    /\ out' = <<>>
    /\ UNCHANGED <<singletonVars, _settings, _client, _initialized, _connected,
                   _auth_error, handlerVars, envVars, tasks, flushing, disp>>

_on_failed_auth ==
    /\ Ready /\ HasClient
    /\ _auth_error' = TRUE
    /\ last' = Returned("_on_failed_auth")
    /\ out' = <<>>
    /\ UNCHANGED <<singletonVars, _settings, _client, _initialized, _connected,
                   _session_started, handlerVars, envVars, procVars>>

_on_disconnected ==
    /\ Ready /\ HasClient
    /\ _connected' = FALSE
    /\ _session_started' = FALSE
    /\ last' = Returned("_on_disconnected")
    /\ out' = <<>>
    /\ UNCHANGED <<singletonVars, _settings, _client, _initialized, _auth_error,
                   handlerVars, envVars, procVars>>

\* _on_presence_subscribe(presence): fires while a transport of this object is
\* open; approves through the current transport handle
_on_presence_subscribe(sender) ==
    /\ Ready /\ open # {}
    /\ IF _client = NoClient
       THEN /\ last' = Result("_on_presence_subscribe", "AssertionError", JidStr(sender), 0)
            /\ out' = <<>>
       ELSE /\ last' = Result("_on_presence_subscribe", "None", JidStr(sender), 0)
            /\ out' = <<Call("send_presence", _client, JidStr(sender), <<>>, "subscribed")>>
    /\ UNCHANGED <<singletonVars, botVars, envVars, procVars>>


(* -------------------------------- sends ------------------------------- *)
Failed(op, err, to, cause) == [Result(op, err, to, 0) EXCEPT !.cause = cause]

\* reply_to_user(message, jid): how it ends and what it hands to the transport;
\* send_raises: the transport's send_message raises
reply_to_user_NoConnectedCheck(op, message, jid, send_raises) ==
    IF ~_initialized
    THEN [res |-> Result(op, "NotInitializedError", <<>>, 0), out |-> <<>>]
    ELSE IF _client = NoClient
    THEN [res |-> Result(op, "SendError", jid, 0), out |-> <<>>]
    ELSE [res |-> IF send_raises THEN Failed(op, "SendError", jid, "transport")
                  ELSE Returned(op),
          out |-> <<Call("send_message", _client, jid, message, "chat")>>]
reply_to_user_NoInitCheck(op, message, jid, send_raises) ==
    IF ~_connected \/ _client = NoClient
    THEN [res |-> Result(op, "SendError", jid, 0), out |-> <<>>]
    ELSE [res |-> IF send_raises THEN Failed(op, "SendError", jid, "transport")
                  ELSE Returned(op),
          out |-> <<Call("send_message", _client, jid, message, "chat")>>]
reply_to_user_Swallow(op, message, jid, send_raises) ==
    IF ~_initialized
    THEN [res |-> Result(op, "NotInitializedError", <<>>, 0), out |-> <<>>]
    ELSE IF ~_connected \/ _client = NoClient
    THEN [res |-> Result(op, "SendError", jid, 0), out |-> <<>>]
    ELSE [res |-> Returned(op),
          out |-> <<Call("send_message", _client, jid, message, "chat")>>]
reply_to_user_body(op, message, jid, send_raises) ==
    IF ~_initialized
    THEN [res |-> Result(op, "NotInitializedError", <<>>, 0), out |-> <<>>]
    ELSE IF ~_connected \/ _client = NoClient
    THEN [res |-> Result(op, "SendError", jid, 0), out |-> <<>>]
    ELSE [res |-> IF send_raises THEN Failed(op, "SendError", jid, "transport")
                  ELSE Returned(op),
          out |-> <<Call("send_message", _client, jid, message, "chat")>>]

\* send_message(message): the guard, the assertion, then reply_to_user
send_message_body(op, message, send_raises) ==
    IF ~_initialized
    THEN [res |-> Result(op, "NotInitializedError", <<>>, 0), out |-> <<>>]
    ELSE IF _settings = NoSettings
    THEN [res |-> Result(op, "AssertionError", <<>>, 0), out |-> <<>>]
    ELSE reply_to_user_body(op, message, SettingsTable[_settings].default_receiver,
                            send_raises)

\* the URL send_url builds
JoinUrl_NoStrip(base_url, path) == base_url \o <<SLASH>> \o path
JoinUrl(base_url, path) == rstrip(base_url, SLASH) \o <<SLASH>> \o lstrip(path, SLASH)

send_url_body(op, path, send_raises) ==
    IF ~_initialized
    THEN [res |-> Result(op, "NotInitializedError", <<>>, 0), out |-> <<>>]
    ELSE IF _settings = NoSettings
    THEN [res |-> Result(op, "AssertionError", <<>>, 0), out |-> <<>>]
    ELSE send_message_body(op, JoinUrl(SettingsTable[_settings].base_url, path),
                           send_raises)

\* send_message_sync(message): no connected test, no try/except
send_message_sync_body(op, message, send_raises) ==
    IF ~_initialized
    THEN [res |-> Result(op, "NotInitializedError", <<>>, 0), out |-> <<>>]
    ELSE IF _settings = NoSettings
    THEN [res |-> Result(op, "AssertionError", <<>>, 0), out |-> <<>>]
    ELSE IF _client = NoClient
    THEN [res |-> Returned(op), out |-> <<>>]
    ELSE [res |-> IF send_raises THEN Result(op, "TransportError", <<>>, 0)
                  ELSE Returned(op),
          out |-> <<Call("send_message", _client,
                         SettingsTable[_settings].default_receiver, message, "chat")>>]

\* a send changes nothing of the bot
SendStep(r) ==
    /\ last' = r.res
    /\ out' = r.out
    /\ UNCHANGED <<singletonVars, botVars, envVars, procVars>>

send_message(message) ==
    /\ Ready
    /\ \E send_raises \in BOOLEAN :
           SendStep(send_message_body("send_message", message, send_raises))

reply_to_user(message, jid) ==
    /\ Ready
    /\ \E send_raises \in BOOLEAN :
           SendStep(reply_to_user_body("reply_to_user", message, jid, send_raises))

send_url(path) ==
    /\ Ready
    /\ \E send_raises \in BOOLEAN :
           SendStep(send_url_body("send_url", path, send_raises))

send_message_sync(message) ==
    /\ Ready
    /\ \E send_raises \in BOOLEAN :
           SendStep(send_message_sync_body("send_message_sync", message, send_raises))
\* the url expression of send_url, applied to a base url and a path
BaseUrls ==
    { <<>>, <<SLASH>>, <<"w">>, <<"w", SLASH>>, <<"w", SLASH, SLASH>>,
      <<"w", SLASH, "x", SLASH>> }
PathInputs ==
    { <<>>, <<SLASH>>, <<"p">>, <<SLASH, "p">>, <<SLASH, SLASH, "p">>,
      <<"p", SLASH, "q">>, <<SLASH, "p", SLASH>> }
build_url(base_url, path) ==
    /\ Ready
    /\ last' = Result("build_url", "None", <<base_url, path, JoinUrl(base_url, path)>>, 0)
    /\ out' = <<>>
    /\ UNCHANGED <<singletonVars, botVars, envVars, procVars>>

(* -------------------------------- flush ------------------------------- *)
FlushTimeouts == 0..MaxFlushTimeout

\* flush returns after the given number of ticks
FlushEnd(why, elapsed) == [Result("flush", "None", <<>>, elapsed) EXCEPT !.cause = why]

\* flush(timeout) up to its first suspension: the two early returns, the
\* deadline, then the first turn of the loop. has_transport: the client has a
\* transport attribute that is not None; buf_empty: get_write_buffer_size() is 0
flush(timeout, has_transport, buf_empty) ==
    /\ Ready /\ flushing.pc = "idle"
    /\ IF _client = NoClient \/ ~_connected
       THEN /\ last' = FlushEnd("not_connected", 0)
            /\ flushing' = IdleFlush
       ELSE IF ~has_transport
       THEN /\ last' = FlushEnd("no_transport", 0)
            /\ flushing' = IdleFlush
       ELSE IF timeout = 0
       THEN /\ last' = FlushEnd("deadline", 0)
            /\ flushing' = IdleFlush
       ELSE IF buf_empty
       THEN /\ last' = FlushEnd("empty", 0)
            /\ flushing' = IdleFlush
       ELSE /\ last' = Result("flush", "suspended", <<>>, 0)
            /\ flushing' = [pc |-> "polling", elapsed |-> 0, timeout |-> timeout]
    /\ out' = <<>>
    /\ UNCHANGED <<singletonVars, botVars, envVars, tasks, roster_wait, disp>>

\* asyncio.sleep(0.05) returns after d ticks; the loop condition tests the
\* deadline, then the buffer is read on the transport captured at the start
flush_poll_NoDeadline(d, buf_empty) ==
    /\ flushing.pc = "polling"
    /\ IF buf_empty
       THEN /\ last' = FlushEnd("empty", flushing.elapsed + d)
            /\ flushing' = IdleFlush
       ELSE /\ last' = Result("flush", "suspended", <<>>, 0)
            /\ flushing' = flushing
    /\ out' = <<>>
    /\ UNCHANGED <<singletonVars, botVars, envVars, tasks, roster_wait, disp>>
flush_poll(d, buf_empty) ==
    /\ flushing.pc = "polling"
    /\ LET e == flushing.elapsed + d
       IN  IF e >= flushing.timeout
           THEN /\ last' = FlushEnd("deadline", e)
                /\ flushing' = IdleFlush
           ELSE IF buf_empty
           THEN /\ last' = FlushEnd("empty", e)
                /\ flushing' = IdleFlush
           ELSE /\ last' = Result("flush", "suspended", <<>>, 0)
                /\ flushing' = [flushing EXCEPT !.elapsed = e]
    /\ out' = <<>>
    /\ UNCHANGED <<singletonVars, botVars, envVars, tasks, roster_wait, disp>>

(* --------------------------- handler management ----------------------- *)
\* XmppBot.add_message_handler / add_presence_handler: async mapping, no check
add_handler(kind, name, h) ==
    /\ Ready
    /\ LET d == SetItem(AsyncDict(kind), name, h)
       IN  /\ IF kind = "message"
              THEN /\ _async_message_handlers' = d
                   /\ UNCHANGED _async_presence_handlers
              ELSE /\ _async_presence_handlers' = d
                   /\ UNCHANGED _async_message_handlers
           /\ disp' = TrackDisp(kind, d)
    /\ last' = Returned("add_handler")
    /\ out' = <<>>
    /\ UNCHANGED <<singletonVars, _settings, _client, flagVars, _handlers, envVars,
                   tasks, roster_wait, flushing>>

remove_handler_AlsoSync(kind, name) ==
    /\ Ready
    /\ LET r == Registry_remove(_handlers, kind, name)
       IN  IF Has(AsyncDict(kind), name)
           THEN LET d == DelItem(AsyncDict(kind), name)
                IN  /\ IF kind = "message"
                       THEN /\ _async_message_handlers' = d
                            /\ UNCHANGED _async_presence_handlers
                       ELSE /\ _async_presence_handlers' = d
                            /\ UNCHANGED _async_message_handlers
                    /\ disp' = TrackDisp(kind, d)
                    /\ _handlers' = r.reg
                    /\ last' = Returned("remove_handler")
           ELSE /\ _handlers' = r.reg
                /\ last' = Result("remove_handler", r.err, <<>>, 0)
                /\ UNCHANGED <<_async_message_handlers, _async_presence_handlers, disp>>
    /\ out' = <<>>
    /\ UNCHANGED <<singletonVars, _settings, _client, flagVars, envVars,
                   tasks, roster_wait, flushing>>
\* XmppBot.remove_message_handler / remove_presence_handler: the async mapping
\* first, else the sync registry
remove_handler(kind, name) ==
    /\ Ready
    /\ IF Has(AsyncDict(kind), name)
       THEN LET d == DelItem(AsyncDict(kind), name)
            IN  /\ IF kind = "message"
                   THEN /\ _async_message_handlers' = d
                        /\ UNCHANGED _async_presence_handlers
                   ELSE /\ _async_presence_handlers' = d
                        /\ UNCHANGED _async_message_handlers
                /\ disp' = TrackDisp(kind, d)
                /\ _handlers' = _handlers
                /\ last' = Returned("remove_handler")
       ELSE LET r == Registry_remove(_handlers, kind, name)
            IN  /\ _handlers' = r.reg
                /\ last' = Result("remove_handler", r.err, <<>>, 0)
                /\ UNCHANGED <<_async_message_handlers, _async_presence_handlers, disp>>
    /\ out' = <<>>
    /\ UNCHANGED <<singletonVars, _settings, _client, flagVars, envVars,
                   tasks, roster_wait, flushing>>

\* registration of a sync handler: HandlerRegistry.add_*_handler on bot._handlers
registry_add_handler(kind, name, h) ==
    /\ Ready
    /\ LET r == Registry_add(_handlers, kind, name, h)
       IN  /\ _handlers' = r.reg
           /\ last' = Result("registry_add_handler", r.err, <<>>, 0)
    /\ out' = <<>>
    /\ UNCHANGED <<singletonVars, _settings, _client, flagVars,
                   _async_message_handlers, _async_presence_handlers, envVars, procVars>>


\* HandlerRegistry.remove_*_handler called on the registry itself
registry_remove_handler(kind, name) ==
    /\ Ready
    /\ LET r == Registry_remove(_handlers, kind, name)
       IN  /\ _handlers' = r.reg
           /\ last' = Result("registry_remove_handler", r.err, <<>>, 0)
    /\ out' = <<>>
    /\ UNCHANGED <<singletonVars, _settings, _client, flagVars,
                   _async_message_handlers, _async_presence_handlers, envVars, procVars>>

\* HandlerRegistry.clear()
registry_clear ==
    /\ Ready
    /\ _handlers' = Registry_clear(_handlers)
    /\ last' = Returned("registry_clear")
    /\ out' = <<>>
    /\ UNCHANGED <<singletonVars, _settings, _client, flagVars,
                   _async_message_handlers, _async_presence_handlers, envVars, procVars>>

(* ------------------------------- dispatch ----------------------------- *)
NamesOf(entries) == [i \in 1..Len(entries) |-> entries[i].name]

RECURSIVE CallSyncHandlers_NoCatch(_, _)
CallSyncHandlers_NoCatch(entries, raisers) ==
    IF entries = <<>> THEN [called |-> <<>>, err |-> "None"]
    ELSE IF Head(entries).name \in raisers
    THEN [called |-> <<Head(entries).name>>, err |-> "HandlerError"]
    ELSE LET rest == CallSyncHandlers_NoCatch(Tail(entries), raisers)
         IN  [called |-> <<Head(entries).name>> \o rest.called, err |-> rest.err]

RECURSIVE CallSyncHandlers(_, _)
\* the loop over the sync handlers: each call sits in try/except Exception, so
\* a handler that raises (its name is in raisers) is logged and the loop goes on
CallSyncHandlers(entries, raisers) ==
    IF entries = <<>> THEN [called |-> <<>>, err |-> "None"]
    ELSE LET rest == CallSyncHandlers(Tail(entries), raisers)
         IN  [called |-> <<Head(entries).name>> \o rest.called, err |-> rest.err]

\* next() on the iterator over the live async mapping, then the call of the
\* handler it yields.  A mapping whose size differs from the size at the start
\* of the loop makes next() raise RuntimeError; one whose keys changed but whose
\* size is the same may raise or go on.  The set of the callback's next states.
AsyncNext(d, dict) ==
    LET failed == [d EXCEPT !.pc = "done", !.err = "RuntimeError"]
        goon == IF d.pos < Len(dict)
                THEN [d EXCEPT !.pc = "awaiting", !.pos = d.pos + 1,
                               !.async_called = Append(@, dict[d.pos + 1].name),
                               !.called_h = Append(@, dict[d.pos + 1].h)]
                ELSE [d EXCEPT !.pc = "done"]
    IN  IF Len(dict) # d.di_used THEN {failed}
        ELSE IF d.mutated THEN {failed, goon}
        ELSE {goon}

\* a callback that ends before any handler is called
Dropped(kind, why, err, sender, body) ==
    [IdleDisp EXCEPT !.pc = "done", !.kind = kind, !.why = why, !.err = err,
                     !.sender = JidStr(sender), !.bare = sender.bare, !.body = body,
                     !.settings0 = _settings]

Dispatch_AsyncFirst(kind, sender, body, raisers) ==
    LET entries == Registry_get_handlers(_handlers, kind)
        d0 == [IdleDisp EXCEPT !.kind = kind, !.why = "dispatched",
                               !.sender = JidStr(sender), !.bare = sender.bare,
                               !.body = body, !.settings0 = _settings,
                               !.sync0 = NamesOf(entries),
                               !.async0 = NamesOf(AsyncDict(kind)),
                               !.di_used = Len(AsyncDict(kind))]
    IN  AsyncNext(d0, AsyncDict(kind))
\* the sync loop, then the start of the async loop
Dispatch(kind, sender, body, raisers) ==
    LET entries == Registry_get_handlers(_handlers, kind)
        sync == CallSyncHandlers(entries, raisers)
        d0 == [IdleDisp EXCEPT !.kind = kind, !.why = "dispatched",
                               !.sender = JidStr(sender), !.bare = sender.bare,
                               !.body = body, !.settings0 = _settings,
                               !.sync0 = NamesOf(entries),
                               !.async0 = NamesOf(AsyncDict(kind)),
                               !.sync_called = sync.called,
                               !.caught = (raisers \cap KeysOf(entries)) # {},
                               !.di_used = Len(AsyncDict(kind))]
    IN  IF sync.err # "None"
        THEN {[d0 EXCEPT !.pc = "done", !.err = sync.err]}
        ELSE AsyncNext(d0, AsyncDict(kind))

\* _on_message(msg) up to the first await of an async handler
_on_message_NoTypeFilter(type, body, sender) ==
    /\ Ready /\ HasClient /\ disp.pc = "idle"
    /\ IF body = <<>>
       THEN disp' = Dropped("message", "body", "None", sender, body)
       ELSE IF _settings = NoSettings
       THEN disp' = Dropped("message", "assert", "AssertionError", sender, body)
       ELSE IF ~is_jid_allowed(SettingsTable[_settings], sender.bare)
       THEN disp' = Dropped("message", "denied", "None", sender, body)
       ELSE \E raisers \in SUBSET KeysOf(_handlers.message) :
                disp' \in Dispatch("message", sender, body, raisers)
    /\ last' = Result("_on_message", "suspended", <<>>, 0)
    /\ out' = <<>>
    /\ UNCHANGED <<singletonVars, botVars, envVars, tasks, roster_wait, flushing>>
_on_message(type, body, sender) ==
    /\ Ready /\ HasClient /\ disp.pc = "idle"
    /\ IF type \notin {"chat", "normal"}
       THEN disp' = Dropped("message", "type", "None", sender, body)
       ELSE IF body = <<>>
       THEN disp' = Dropped("message", "body", "None", sender, body)
       ELSE IF _settings = NoSettings
       THEN disp' = Dropped("message", "assert", "AssertionError", sender, body)
       ELSE IF ~is_jid_allowed(SettingsTable[_settings], sender.bare)
       THEN disp' = Dropped("message", "denied", "None", sender, body)
       ELSE \E raisers \in SUBSET KeysOf(_handlers.message) :
                disp' \in Dispatch("message", sender, body, raisers)
    /\ last' = Result("_on_message", "suspended", <<>>, 0)
    /\ out' = <<>>
    /\ UNCHANGED <<singletonVars, botVars, envVars, tasks, roster_wait, flushing>>

\* _on_presence(presence) up to the first await of an async handler
_on_presence(sender) ==
    /\ Ready /\ HasClient /\ disp.pc = "idle"
    /\ \E raisers \in SUBSET KeysOf(_handlers.presence) :
           disp' \in Dispatch("presence", sender, <<>>, raisers)
    /\ last' = Result("_on_presence", "suspended", <<>>, 0)
    /\ out' = <<>>
    /\ UNCHANGED <<singletonVars, botVars, envVars, tasks, roster_wait, flushing>>

\* the awaited async handler ends, by return or (raised) by an exception that
\* the try/except around the await logs; the loop takes its next turn
_on_event_resume(raised) ==
    /\ Ready /\ disp.pc = "awaiting"
    /\ disp' \in AsyncNext([disp EXCEPT !.caught = @ \/ raised], AsyncDict(disp.kind))
    /\ last' = Result("_on_" \o disp.kind, "suspended", <<>>, 0)
    /\ out' = <<>>
    /\ UNCHANGED <<singletonVars, botVars, envVars, tasks, roster_wait, flushing>>

\* the callback returns to the event loop (or its exception reaches it)
_on_event_return ==
    /\ created > 0 /\ disp.pc = "done"
    /\ disp' = IdleDisp
    /\ last' = Result("_on_" \o disp.kind, disp.err, <<>>, 0)
    /\ out' = <<>>
    /\ UNCHANGED <<singletonVars, botVars, envVars, tasks, roster_wait, flushing>>

(* ---------------------------- specification --------------------------- *)
Init ==
    /\ cls_instance = 0 /\ created = 0 /\ _init_done = FALSE
    /\ _settings = NoSettings /\ _client = NoClient
    /\ _initialized = FALSE /\ _connected = FALSE
    /\ _session_started = FALSE /\ _auth_error = FALSE
    /\ _handlers = EmptyRegistry
    /\ _async_message_handlers = EmptyDict
    /\ _async_presence_handlers = EmptyDict
    /\ nclients = 0 /\ open = {}
    /\ tasks = [t \in TaskIds |-> IdleTask]
    /\ roster_wait = FALSE
    /\ flushing = IdleFlush
    /\ disp = IdleDisp
    /\ last = Returned("none")
    /\ out = <<>>

SingletonOps ==
    \/ get_instance
    \/ reset_instance

ConnectOps ==
    \/ \E s \in SettingsIds : initialize(s)
    \/ \E t \in TaskIds, d \in 1..MaxSleepTicks : _connect_poll(t, d)
    \/ _on_session_start
    \/ \E roster_ok \in BOOLEAN : _on_session_start_resume(roster_ok)
    \/ _on_failed_auth
    \/ _on_disconnected

TeardownOps ==
    \/ disconnect
    \/ shutdown

SendOps ==
    \/ \E m \in MessageTexts : send_message(m)
    \/ \E m \in MessageTexts, jid \in Recipients : reply_to_user(m, jid)
    \/ \E path \in Paths : send_url(path)
    \/ \E m \in MessageTexts : send_message_sync(m)
    \/ settings

HandlerOps(K, N, H) ==
    \/ \E kind \in K, name \in N, h \in H : add_handler(kind, name, h)
    \/ \E kind \in K, name \in N : remove_handler(kind, name)
    \/ \E kind \in K, name \in N, h \in H : registry_add_handler(kind, name, h)

MessageOps ==
    \/ \E type \in MsgTypes, body \in Bodies, sender \in Senders :
           _on_message(type, body, sender)
    \/ \E raised \in BOOLEAN : _on_event_resume(raised)
    \/ _on_event_return

SubscribeOps ==
    \E sender \in Senders : _on_presence_subscribe(sender)

\* the lifecycle of the singleton, the sends and the subscription requests
Next == SingletonOps \/ ConnectOps \/ TeardownOps \/ SendOps \/ SubscribeOps
Spec == Init /\ [][Next]_vars

\* one instance: its lifecycle with handlers registered in every mapping
NextHandlers ==
    \/ get_instance
    \/ ConnectOps
    \/ TeardownOps
    \/ HandlerOps(Kinds, {"a"}, {"h1"})
SpecHandlers == Init /\ [][NextHandlers]_vars

\* one instance: message dispatch to the handlers registered for messages,
\* from the first initialize() on (the callbacks read no lifecycle flag)
NextDispatch ==
    \/ get_instance
    \/ \E s \in SettingsIds : initialize(s)
    \/ HandlerOps({"message"}, Names, {"h1"})
    \/ MessageOps
SpecDispatch == Init /\ [][NextDispatch]_vars

\* the HandlerRegistry of one instance, used on its own
NextRegistry ==
    \/ get_instance
    \/ \E kind \in Kinds, name \in Names, h \in Handlers :
           registry_add_handler(kind, name, h)
    \/ \E kind \in Kinds, name \in Names : registry_remove_handler(kind, name)
    \/ registry_clear
SpecRegistry == Init /\ [][NextRegistry]_vars

\* the singleton over resets, with a handler registered for messages
NextSingleton ==
    \/ SingletonOps
    \/ ConnectOps
    \/ disconnect
    \/ HandlerOps({"message"}, {"a"}, {"h1"})
SpecSingleton == Init /\ [][NextSingleton]_vars

\* Settings on its own: construction and the allow-list test, beside a bot
NextSettings ==
    \/ get_instance
    \/ \E ctor \in Constructors, jid \in JidInputs, password \in Passwords,
          default_receiver \in JidInputs :
           Settings_new(ctor, jid, password, default_receiver)
    \/ \E al \in AllowLists, jid \in Candidates : Settings_is_jid_allowed(al, jid)
SpecSettings == Init /\ [][NextSettings]_vars

\* one event of either kind at a time, from one sender
EventOps ==
    \/ \E sender \in {[bare |-> UserJid, resource |-> <<"r">>]} :
           \/ _on_message("chat", <<"h">>, sender)
           \/ _on_presence(sender)
    \/ \E raised \in BOOLEAN : _on_event_resume(raised)
    \/ _on_event_return

\* async handlers registered over each other, beside a sync handler named "a"
NextOverwrite ==
    \/ get_instance
    \/ \E s \in {1} : initialize(s)
    \/ \E kind \in Kinds, name \in Names, h \in Handlers : add_handler(kind, name, h)
    \/ \E kind \in Kinds : registry_add_handler(kind, "a", "h1")
    \/ EventOps
SpecOverwrite == Init /\ [][NextOverwrite]_vars

\* events of both kinds delivered to sync and async handlers under two names
NextOrder ==
    \/ get_instance
    \/ \E s \in {1} : initialize(s)
    \/ \E kind \in Kinds, name \in Names : add_handler(kind, name, "h1")
    \/ \E kind \in Kinds, name \in Names : registry_add_handler(kind, name, "h1")
    \/ EventOps
SpecOrder == Init /\ [][NextOrder]_vars

\* presence events from allowed and other senders under an allow-list, while
\* presence handlers come and go and message handlers are registered too
PresenceSenders ==
    { [bare |-> UserJid, resource |-> <<"r">>], [bare |-> StrangerJid, resource |-> <<>>] }
NextPresence ==
    \/ get_instance
    \/ \E s \in {2} : initialize(s)
    \/ HandlerOps({"presence"}, Names, {"h1"})
    \/ \E h \in {"h1"} : add_handler("message", "a", h)
    \/ \E sender \in PresenceSenders : _on_presence(sender)
    \/ \E sender \in {[bare |-> UserJid, resource |-> <<"r">>]} :
           _on_message("chat", <<"h">>, sender)
    \/ \E raised \in BOOLEAN : _on_event_resume(raised)
    \/ _on_event_return
SpecPresence == Init /\ [][NextPresence]_vars

\* flush() beside the lifecycle of one instance
FlushOps ==
    \/ \E timeout \in FlushTimeouts, has_transport \in BOOLEAN, buf_empty \in BOOLEAN :
           flush(timeout, has_transport, buf_empty)
    \/ \E d \in 1..MaxSleepTicks, buf_empty \in BOOLEAN : flush_poll(d, buf_empty)
NextFlush ==
    \/ get_instance
    \/ ConnectOps
    \/ disconnect
    \/ HandlerOps({"message"}, {"a"}, {"h1"})
    \/ FlushOps
SpecFlush == Init /\ [][NextFlush]_vars
\* the event loop resumes a coroutine whose sleep has ended
SpecFlushFair ==
    SpecFlush /\ WF_vars(\E d \in 1..MaxSleepTicks, buf_empty \in BOOLEAN : flush_poll(d, buf_empty))

\* send_url on a connected bot, and its url expression on more inputs
NextUrl ==
    \/ get_instance
    \/ \E s \in SettingsIds : initialize(s)
    \/ \E t \in TaskIds, d \in 1..MaxSleepTicks : _connect_poll(t, d)
    \/ _on_session_start
    \/ \E roster_ok \in BOOLEAN : _on_session_start_resume(roster_ok)
    \/ \E path \in Paths : send_url(path)
    \/ \E base_url \in BaseUrls, path \in PathInputs : build_url(base_url, path)
SpecUrl == Init /\ [][NextUrl]_vars

\* one instance initialized, disconnected and initialized again, with a message
\* handler, message events and subscription requests
NextReenter ==
    \/ get_instance
    \/ \E s \in {1} : initialize(s)
    \/ \E t \in TaskIds, d \in 1..MaxSleepTicks : _connect_poll(t, d)
    \/ _on_session_start
    \/ \E roster_ok \in BOOLEAN : _on_session_start_resume(roster_ok)
    \/ disconnect
    \/ HandlerOps({"message"}, {"a"}, {"h1"})
    \/ \E sender \in {[bare |-> UserJid, resource |-> <<"r">>]} :
           _on_message("chat", <<"h">>, sender)
    \/ \E raised \in BOOLEAN : _on_event_resume(raised)
    \/ _on_event_return
    \/ \E sender \in {[bare |-> StrangerJid, resource |-> <<>>]} :
           _on_presence_subscribe(sender)
SpecReenter == Init /\ [][NextReenter]_vars

(* ------------------------------ properties ---------------------------- *)
\* no initialize() coroutine of this instance is suspended in the connect wait
NoInitInFlight == \A t \in TaskIds : tasks[t].pc = "idle"

\* C1 as stated: on one instance, every call of initialize() after the first
\* fails with AlreadyInitializedError, whatever happened since the first call
\* (it succeeded, it failed by timeout or authentication, a disconnected event
\* fired, disconnect() was called).  The instance has made an earlier call
\* exactly when it has constructed a client, and the earlier calls have all
\* ended when no coroutine is in the connect wait.
C1_EverySecondInitializeRejected ==
    [][\A s \in SettingsIds :
          (initialize(s) /\ nclients > 0 /\ NoInitInFlight)
              => last'.err = "AlreadyInitializedError"]_vars

\* C1 corrected: a call of initialize() fails with AlreadyInitializedError
\* exactly when the initialized flag is true at the call, and then it changes
\* no state and opens no transport; the flag is true once a call has succeeded
\* and stays true through disconnected events, but a failed call never sets it
\* and disconnect() clears it, and after those a second call is not rejected.
C1_RejectedIffInitialized ==
    [][\A s \in SettingsIds :
          initialize(s) =>
              IF _initialized
              THEN /\ last'.err = "AlreadyInitializedError"
                   /\ out' = <<>>
                   /\ UNCHANGED <<singletonVars, botVars, envVars, procVars>>
              ELSE /\ last'.err = "suspended"
                   /\ _client' \notin {NoClient, _client}
                   /\ _settings' = s]_vars

\* C1 witness: a second initialize() was rejected after a disconnected event
C1_Witness ==
    /\ last.op = "initialize" /\ last.err = "AlreadyInitializedError"
    /\ _initialized /\ ~_connected /\ ~_session_started

StateOfBot == <<singletonVars, botVars, envVars, procVars>>

\* C2: while the initialized flag is false, send_message, reply_to_user and
\* send_url each fail with NotInitializedError, make no call on the transport
\* and change no state of the bot.
C2_SendsNeedInitialized ==
    [][(last'.op \in {"send_message", "reply_to_user", "send_url"} /\ ~_initialized)
          => /\ last'.err = "NotInitializedError"
             /\ out' = <<>>
             /\ StateOfBot' = StateOfBot]_vars

\* C2 witness: a send was refused after disconnect() (the settings of the
\* earlier initialize() are still there, the client is gone)
C2_Witness ==
    /\ last.op \in {"send_message", "reply_to_user", "send_url"}
    /\ last.err = "NotInitializedError"
    /\ ~_initialized /\ _settings # NoSettings /\ _client = NoClient

\* C3: reply_to_user(message, jid) on a bot that is initialized but not
\* connected, or has no client, fails with SendError naming jid and makes
\* no call on the transport.
C3_ReplyNeedsConnection ==
    [][\A m \in MessageTexts, jid \in Recipients :
          (reply_to_user(m, jid) /\ _initialized /\ (~_connected \/ _client = NoClient))
              => /\ last'.err = "SendError"
                 /\ last'.to = jid
                 /\ out' = <<>>]_vars

\* C3 witness: a reply on an initialized bot after a disconnected event
C3_Witness ==
    /\ last.op = "reply_to_user" /\ last.err = "SendError" /\ last.to \in Recipients
    /\ _initialized /\ ~_connected /\ out = <<>>

\* a message the callback accepts: type chat or normal, a body, settings
\* present and the sender allowed by them
Accepted(type, body, sender) ==
    /\ type \in {"chat", "normal"}
    /\ body # <<>>
    /\ _settings # NoSettings
    /\ is_jid_allowed(SettingsTable[_settings], JidStr(sender))

\* C4: fault isolation in message dispatch.  For an accepted message the sync
\* loop calls every registered sync handler once, in order, whichever of them
\* raise; and when the callback has returned, with the keys of the async
\* mapping not changed during the dispatch, every sync and every async handler
\* registered at its start was called exactly once and the callback did not raise.
C4_FaultIsolation ==
    /\ [][\A type \in MsgTypes, body \in Bodies, sender \in Senders :
             (_on_message(type, body, sender) /\ Accepted(type, body, sender))
                 => /\ disp'.why = "dispatched"
                    /\ disp'.sync_called = NamesOf(_handlers.message)
                    /\ disp'.async0 = NamesOf(_async_message_handlers)
                    /\ disp'.err = "None"]_vars
    /\ []((disp.pc = "done" /\ disp.why = "dispatched" /\ ~disp.mutated)
             => /\ disp.sync_called = disp.sync0
                /\ disp.async_called = disp.async0
                /\ disp.err = "None")

\* C4 witness: a dispatch over two sync and two async handlers ended with all
\* four called although a handler raised
C4_Witness ==
    /\ disp.pc = "done" /\ disp.why = "dispatched" /\ ~disp.mutated
    /\ disp.caught /\ disp.err = "None"
    /\ Len(disp.sync_called) = 2 /\ Len(disp.async_called) = 2

\* C5: a message whose sender's bare address is not in the allow-list that is
\* set ends the callback at once: no sync and no async handler is called,
\* nothing is sent, no state of the bot changes.
C5_DeniedSenderIgnored ==
    [][\A type \in MsgTypes, body \in Bodies, sender \in Senders :
          (/\ _on_message(type, body, sender)
           /\ _settings # NoSettings
           /\ ~SettingsTable[_settings].allowed_jids.unset
           /\ sender.bare \notin SettingsTable[_settings].allowed_jids.jids)
              => /\ disp'.pc = "done"
                 /\ disp'.sync_called = <<>>
                 /\ disp'.async_called = <<>>
                 /\ disp'.err = "None"
                 /\ out' = <<>>
                 /\ botVars' = botVars]_vars

\* C5 witness: a chat message with a body from a sender outside the allow-list
\* was dropped while a sync and an async handler were registered
C5_Witness ==
    /\ disp.pc = "done" /\ disp.why = "denied" /\ disp.body # <<>>
    /\ disp.bare = StrangerJid
    /\ _handlers.message # EmptyDict /\ _async_message_handlers # EmptyDict
    /\ disp.sync_called = <<>> /\ disp.async_called = <<>> /\ out = <<>>

\* C6: after disconnect() or shutdown() on an initialized bot the connected,
\* initialized and session-started flags are false, the client is absent and
\* the sync registry and both async mappings are empty; the call returns
\* normally also when closing the transport raises.
C6_DisconnectClearsAll ==
    [][(last'.op \in {"disconnect", "shutdown"} /\ _initialized)
          => /\ ~_connected' /\ ~_initialized' /\ ~_session_started'
             /\ _client' = NoClient
             /\ _handlers' = EmptyRegistry
             /\ _async_message_handlers' = EmptyDict
             /\ _async_presence_handlers' = EmptyDict
             /\ last'.err = "None"]_vars

\* C6 witness: disconnect() closed a transport whose close raised (the client
\* it called is still open) and left the bot cleared
C6_Witness ==
    /\ last.op = "disconnect" /\ Len(out) = 1
    /\ out[1].call = "disconnect" /\ out[1].client \in open
    /\ ~_initialized /\ _client = NoClient /\ _handlers = EmptyRegistry

\* C7: disconnect() on a bot that is not initialized raises nothing, makes no
\* call on the transport and changes no state; disconnect() always leaves the
\* bot not initialized, so a second disconnect() in a row changes nothing.
C7_DisconnectUninitializedNoOp ==
    [][last'.op = "disconnect"
          => /\ ~_initialized'
             /\ last'.err = "None"
             /\ ~_initialized => (StateOfBot' = StateOfBot /\ out' = <<>>)]_vars

\* C7 witness: disconnect() returned on a bot never initialized whose three
\* handler mappings are still filled
C7_Witness ==
    /\ last.op = "disconnect" /\ last.err = "None" /\ ~_initialized
    /\ _handlers.message # EmptyDict /\ _handlers.presence # EmptyDict
    /\ _async_message_handlers # EmptyDict /\ _async_presence_handlers # EmptyDict

\* C8: HandlerRegistry.  Adding a name already registered for the kind fails
\* with HandlerExistsError and the registry is unchanged (the original handler
\* stays); removing a name not registered fails with HandlerNotFoundError and
\* the registry is unchanged; otherwise add registers exactly that name with
\* that handler and remove deletes exactly that name, every other name and the
\* other kind staying as they were.
C8_RegistryAddRemove ==
    [][/\ \A kind \in Kinds, name \in Names, h \in Handlers :
             registry_add_handler(kind, name, h) =>
                 IF Has(_handlers[kind], name)
                 THEN last'.err = "HandlerExistsError" /\ _handlers' = _handlers
                 ELSE /\ last'.err = "None"
                      /\ Has(_handlers'[kind], name)
                      /\ Get(_handlers'[kind], name) = h
                      /\ Len(_handlers'[kind]) = Len(_handlers[kind]) + 1
                      /\ \A n \in KeysOf(_handlers[kind]) :
                             /\ Has(_handlers'[kind], n)
                             /\ Get(_handlers'[kind], n) = Get(_handlers[kind], n)
                      /\ \A k \in Kinds \ {kind} : _handlers'[k] = _handlers[k]
       /\ \A kind \in Kinds, name \in Names :
             registry_remove_handler(kind, name) =>
                 IF ~Has(_handlers[kind], name)
                 THEN last'.err = "HandlerNotFoundError" /\ _handlers' = _handlers
                 ELSE /\ last'.err = "None"
                      /\ KeysOf(_handlers'[kind]) = KeysOf(_handlers[kind]) \ {name}
                      /\ Len(_handlers'[kind]) = Len(_handlers[kind]) - 1
                      /\ \A n \in KeysOf(_handlers'[kind]) :
                             Get(_handlers'[kind], n) = Get(_handlers[kind], n)
                      /\ \A k \in Kinds \ {kind} : _handlers'[k] = _handlers[k]]_vars

\* C8 witness: a duplicate add was refused while two names were registered
C8_Witness ==
    /\ last.op = "registry_add_handler" /\ last.err = "HandlerExistsError"
    /\ Len(_handlers.message) = 2

\* C9: singleton lifecycle.  While an instance exists get_instance() returns
\* it and changes none of its flags, settings or handlers; the class's
\* instance changes only in get_instance() and reset_instance();
\* reset_instance() disconnects the instance and discards it; the next
\* get_instance() returns an instance different from every earlier one,
\* not initialized, not connected, with no settings and empty handler mappings.
C9_SingletonLifecycle ==
    [][/\ (last'.op = "get_instance" /\ cls_instance # 0)
             => /\ last'.val = cls_instance
                /\ cls_instance' = cls_instance
                /\ botVars' = botVars
       /\ cls_instance' # cls_instance
             => last'.op \in {"get_instance", "reset_instance"}
       /\ last'.op = "reset_instance"
             => /\ cls_instance' = 0
                /\ cls_instance # 0 => (~_initialized' /\ ~_connected')
                /\ (cls_instance # 0 /\ _initialized)
                       => (_client' = NoClient /\ _handlers' = EmptyRegistry
                           /\ _async_message_handlers' = EmptyDict)
       /\ (last'.op = "get_instance" /\ cls_instance = 0)
             => /\ last'.val = cls_instance'
                /\ cls_instance' \notin 0..created
                /\ ~_initialized' /\ ~_connected'
                /\ _settings' = NoSettings /\ _client' = NoClient
                /\ _handlers' = EmptyRegistry
                /\ _async_message_handlers' = EmptyDict
                /\ _async_presence_handlers' = EmptyDict]_vars

\* C9 witness: get_instance() returned the existing, initialized instance, the
\* second one made, with its handlers in place
C9_Witness ==
    /\ last.op = "get_instance" /\ last.val = 2 /\ created = 2
    /\ _initialized /\ _settings # NoSettings
    /\ _handlers.message # EmptyDict /\ _async_message_handlers # EmptyDict

\* C10 as stated: when a turn of the connect wait finds more than
\* connect_timeout elapsed with neither signal fired, initialize() closes the
\* transport it opened and fails with ConnectionError naming the timeout, and
\* the initialized and connected flags are false afterwards.
C10_TimeoutClosesOwnTransport ==
    [][\A t \in TaskIds, d \in 1..MaxSleepTicks :
          (/\ _connect_poll(t, d)
           /\ tasks[t].elapsed + d > tasks[t].timeout
           /\ ~_session_started /\ ~_auth_error)
              => /\ last'.err = "ConnectionError"
                 /\ last'.val = tasks[t].timeout
                 /\ tasks[t].opened \notin open'
                 /\ ~_initialized' /\ ~_connected']_vars

\* C11 as stated: a turn of the connect wait that finds the auth-error marker
\* set (the auth-failed callback fired during this wait) ends initialize()
\* with AuthenticationError naming the configured identity, not with a
\* timeout error, and leaves the initialized and connected flags false.
C11_AuthFailureReported ==
    [][\A t \in TaskIds, d \in 1..MaxSleepTicks :
          (_connect_poll(t, d) /\ _auth_error)
              => /\ last'.err = "AuthenticationError"
                 /\ _settings # NoSettings
                 /\ last'.to = SettingsTable[_settings].jid
                 /\ tasks'[t].pc = "idle"
                 /\ ~_initialized' /\ ~_connected']_vars

\* C12 as stated: when the session-started callback has completed during a
\* sleep of the connect wait that began before the deadline, and the auth-error
\* marker is clear, the next turn of the wait makes initialize() return
\* normally with the initialized and connected flags true and the settings
\* of this call stored (the two settings differ in their timeout).
C12_SessionStartedInTime ==
    [][\A t \in TaskIds, d \in 1..MaxSleepTicks :
          (/\ _connect_poll(t, d)
           /\ _session_started /\ ~_auth_error
           /\ tasks[t].elapsed < tasks[t].timeout)
              => /\ last'.err = "None"
                 /\ _initialized' /\ _connected'
                 /\ _settings' # NoSettings
                 /\ SettingsTable[_settings'].connect_timeout = tasks[t].timeout]_vars

\* C13 as stated: on an initialized and connected bot send_message(message) makes
\* exactly one call on the transport, send_message to the configured default
\* recipient with the given body and type chat; reply_to_user(message, jid)
\* makes the same call addressed to jid.
C13_SendHandsOneMessage ==
    [][/\ \A m \in MessageTexts :
             (send_message(m) /\ _initialized /\ _connected)
                 => /\ _settings # NoSettings
                    /\ out' = <<Call("send_message", _client,
                                     SettingsTable[_settings].default_receiver, m, "chat")>>
                    /\ _client # NoClient
       /\ \A m \in MessageTexts, jid \in Recipients :
             (reply_to_user(m, jid) /\ _initialized /\ _connected)
                 => /\ out' = <<Call("send_message", _client, jid, m, "chat")>>
                    /\ _client # NoClient]_vars

\* C14: send failures are never silent.  send_message and reply_to_user
\* return normally only after a call on the transport that did not raise; on a
\* bot that is not initialized they raise NotInitializedError, on one that is
\* not connected or has no client they raise SendError, and when the
\* transport's send raises they raise SendError chained from that error.
C14_SendFailuresRaise ==
    [][\A op \in {"send_message", "reply_to_user"}, m \in MessageTexts,
          jid \in Recipients, send_raises \in BOOLEAN :
          (/\ Ready
           /\ last'.op = op
           /\ SendStep(IF op = "send_message"
                       THEN send_message_body(op, m, send_raises)
                       ELSE reply_to_user_body(op, m, jid, send_raises)))
              => IF ~_initialized THEN last'.err = "NotInitializedError" /\ out' = <<>>
                 ELSE IF ~_connected \/ _client = NoClient
                 THEN last'.err = "SendError" /\ last'.cause = "None" /\ out' = <<>>
                 ELSE IF send_raises
                 THEN last'.err = "SendError" /\ last'.cause = "transport"
                 ELSE last'.err = "None" /\ Len(out') = 1]_vars

\* C14 witness: send_message raised SendError chained from the transport's error
C14_Witness ==
    /\ last.op = "send_message" /\ last.err = "SendError" /\ last.cause = "transport"
    /\ Len(out) = 1 /\ _initialized /\ _connected

\* C15 as stated: with no initialize() in progress, the settings accessor
\* raises NotInitializedError whenever the initialized flag is false and
\* returns the stored settings whenever it is true.
C15_SettingsOnlyWhileInitialized ==
    [][(last'.op = "settings" /\ NoInitInFlight)
          => IF _initialized
             THEN last'.err = "None" /\ _settings # NoSettings /\ last'.val = _settings
             ELSE last'.err = "NotInitializedError"]_vars

\* an address of the form local@domain or local@domain/resource: one "@", not
\* first; something other than "/" right after it; the first "/" after it,
\* if any, is not the last character
WellFormedJid(j) ==
    \E i \in 2..Len(j) :
        /\ j[i] = AT
        /\ \A k \in 1..Len(j) : j[k] = AT => k = i
        /\ i < Len(j) /\ j[i + 1] # SLASH
        /\ \A k \in (i + 1)..Len(j) :
               (j[k] = SLASH /\ \A m \in (i + 1)..(k - 1) : j[m] # SLASH) => k < Len(j)

BadSettingsInput(jid, password, default_receiver) ==
    \/ jid = <<>> \/ password = <<>> \/ default_receiver = <<>>
    \/ ~WellFormedJid(jid) \/ ~WellFormedJid(default_receiver)

BareOf(a) ==
    CHOOSE p \in {SubSeq(a, 1, n) : n \in 0..Len(a)} :
        /\ \A k \in 1..Len(p) : p[k] # SLASH
        /\ Len(p) = Len(a) \/ a[Len(p) + 1] = SLASH

\* C17: is_jid_allowed(a) is true for every a when the allow-list is unset;
\* when it is set, is_jid_allowed(a) is true exactly when a with its
\* /resource suffix removed is in the allow-list, so an address and that
\* address followed by a resource get the same answer.
C17_AllowListBareAddress ==
    [][\A al \in AllowLists, a \in Candidates :
          (last'.op = "is_jid_allowed" /\ Settings_is_jid_allowed(al, a))
              => /\ (last'.val = 1) <=> (al.unset \/ BareOf(a) \in al.jids)
                 /\ \A b \in Candidates :
                        BareOf(b) = BareOf(a)
                            => is_jid_allowed([allowed_jids |-> al], b) = (last'.val = 1)]_vars

\* C17 witness: with an allow-list set, an address carrying a resource was allowed
C17_Witness ==
    /\ last.op = "is_jid_allowed" /\ last.cause = "set" /\ last.val = 1
    /\ last.to = UserJid \o <<SLASH, "r">>

\* the async mapping of a kind after the step
AsyncDictNext(kind) ==
    IF kind = "message" THEN _async_message_handlers' ELSE _async_presence_handlers'

\* C18: XmppBot.add_message_handler / add_presence_handler never fail and
\* overwrite: after add(name, h) the async mapping of that kind maps name to
\* h, every other name of it is as before, and the other async mapping and
\* the sync registry are untouched, whether or not name was registered
\* before; and whenever a dispatch invokes an async handler, it is the handler
\* the mapping holds for that name at that moment, not one it replaced.
C18_AddOverwrites ==
    [][/\ \A kind \in Kinds, name \in Names, h \in Handlers :
             (last'.op = "add_handler" /\ add_handler(kind, name, h))
                 => /\ last'.err = "None"
                    /\ Has(AsyncDictNext(kind), name)
                    /\ Get(AsyncDictNext(kind), name) = h
                    /\ \A n \in Names \ {name} :
                           /\ Has(AsyncDictNext(kind), n) = Has(AsyncDict(kind), n)
                           /\ Has(AsyncDict(kind), n)
                                  => Get(AsyncDictNext(kind), n) = Get(AsyncDict(kind), n)
                    /\ \A k \in Kinds \ {kind} : AsyncDictNext(k) = AsyncDict(k)
                    /\ _handlers' = _handlers
       /\ Len(disp'.called_h) > Len(disp.called_h)
             => LET k == Len(disp'.called_h)
                    name == disp'.async_called[k]
                IN  /\ Len(disp'.async_called) = k
                    /\ Has(AsyncDict(disp'.kind), name)
                    /\ disp'.called_h[k] = Get(AsyncDict(disp'.kind), name)]_vars

\* C18 witness: while a presence dispatch awaits the handler h1 it found under
\* "a", add_presence_handler("a", h2) has replaced it, beside a sync handler
\* of the same name
C18_Witness ==
    /\ last.op = "add_handler"
    /\ disp.pc = "awaiting" /\ disp.kind = "presence"
    /\ disp.async_called = <<"a">> /\ disp.called_h = <<"h1">>
    /\ Has(_async_presence_handlers, "a") /\ Get(_async_presence_handlers, "a") = "h2"
    /\ Has(_handlers.presence, "a")

\* C19: XmppBot.remove_message_handler / remove_presence_handler(name).  If
\* name is in the async mapping of the kind it is removed from it, everything
\* else there stays and the sync registry is untouched (a sync handler of the
\* same name stays); if it is not, name is removed from the sync registry of
\* the kind; if it is in neither the call fails with HandlerNotFoundError and
\* nothing changes.
C19_RemoveAsyncFirst ==
    [][\A kind \in Kinds, name \in Names :
          (last'.op = "remove_handler" /\ remove_handler(kind, name))
              => IF Has(AsyncDict(kind), name)
                 THEN /\ last'.err = "None"
                      /\ KeysOf(AsyncDictNext(kind)) = KeysOf(AsyncDict(kind)) \ {name}
                      /\ \A n \in KeysOf(AsyncDictNext(kind)) :
                             Get(AsyncDictNext(kind), n) = Get(AsyncDict(kind), n)
                      /\ \A k \in Kinds \ {kind} : AsyncDictNext(k) = AsyncDict(k)
                      /\ _handlers' = _handlers
                 ELSE IF Has(_handlers[kind], name)
                 THEN /\ last'.err = "None"
                      /\ KeysOf(_handlers'[kind]) = KeysOf(_handlers[kind]) \ {name}
                      /\ \A k \in Kinds \ {kind} : _handlers'[k] = _handlers[k]
                      /\ \A k \in Kinds : AsyncDictNext(k) = AsyncDict(k)
                 ELSE /\ last'.err = "HandlerNotFoundError"
                      /\ handlerVars' = handlerVars]_vars

\* C19 witness: a remove succeeded and the sync handlers named "a" of both
\* kinds are still registered, so it removed an async handler only
C19_Witness ==
    /\ last.op = "remove_handler" /\ last.err = "None"
    /\ Has(_handlers.message, "a") /\ Has(_handlers.presence, "a")
    /\ ~Has(_async_message_handlers, "a")

\* C20: dispatch order within one event, message or presence.  The sync loop
\* has called every sync handler registered at the start of the event before
\* the first async handler is invoked; async handlers are invoked one per
\* step, each in the step in which the one before it ended, and no sync
\* handler is called after an async one has been invoked.
C20_DispatchOrder ==
    /\ [](disp.async_called # <<>> => disp.sync_called = disp.sync0)
    /\ [][/\ (disp.pc = "idle" /\ disp'.why = "dispatched")
                => /\ disp'.sync0 = NamesOf(_handlers[disp'.kind])
                   /\ disp'.sync_called = disp'.sync0
          /\ Len(disp'.async_called) > Len(disp.async_called)
                => /\ Len(disp'.async_called) = Len(disp.async_called) + 1
                   /\ disp'.pc = "awaiting"
                   /\ disp.pc \in {"idle", "awaiting"}
                   /\ disp.pc = "awaiting"
                          => /\ last'.op = "_on_" \o disp.kind
                             /\ disp'.sync_called = disp.sync_called]_vars

\* C20 witness: a presence event with two sync and two async handlers: both
\* sync handlers were called, the first async handler has ended and the
\* second is being awaited
C20_Witness ==
    /\ disp.pc = "awaiting" /\ disp.kind = "presence"
    /\ Len(disp.sync_called) = 2 /\ Len(disp.async_called) = 2 /\ disp.pos = 2

\* C21 (as stated): a dispatch works on a snapshot.  Whenever a callback that
\* dispatched has ended, the sync handlers and the async handlers it called are
\* exactly those registered when it began, and the callback did not raise,
\* whatever was added, removed or cleared while an async handler was suspended.
C21_DispatchUsesSnapshot ==
    (disp.pc = "done" /\ disp.why = "dispatched")
        => /\ disp.sync_called = disp.sync0
           /\ disp.async_called = disp.async0
           /\ disp.err = "None"

\* C22: message filtering.  A message whose type is neither chat nor normal, or
\* whose body is empty, ends the callback at once: no handler of either loop is
\* called, nothing is sent and no state changes.  A message for which a handler
\* is called has type chat or normal, a body and an allowed sender, and the
\* handlers are given the full sender address and the body.
C22_MessageFiltering ==
    /\ [][(last'.op = "_on_message" /\ disp.pc = "idle") =>
            \A type \in MsgTypes, body \in Bodies, sender \in Senders :
               _on_message(type, body, sender)
                  => /\ (type \notin {"chat", "normal"} \/ body = <<>>)
                            => /\ disp'.pc = "done" /\ disp'.err = "None"
                               /\ disp'.sync_called = <<>> /\ disp'.async_called = <<>>
                               /\ out' = <<>>
                               /\ UNCHANGED <<singletonVars, botVars, envVars, tasks,
                                              roster_wait, flushing>>
                     /\ (disp'.sync_called # <<>> \/ disp'.async_called # <<>>)
                            => Accepted(type, body, sender)
                     /\ disp'.why = "dispatched"
                            => /\ Accepted(type, body, sender)
                               /\ disp'.sender = JidStr(sender)
                               /\ disp'.body = body]_vars
    /\ []((disp.sync_called # <<>> \/ disp.async_called # <<>>)
             => disp.why = "dispatched")

\* C22 witness: a groupchat message with a body ended with no handler called
\* although a sync and an async message handler are registered
C22_Witness ==
    /\ disp.pc = "done" /\ disp.kind = "message" /\ disp.why = "type"
    /\ disp.body # <<>>
    /\ _handlers.message # <<>> /\ _async_message_handlers # EmptyDict
    /\ disp.sync_called = <<>> /\ disp.async_called = <<>>

\* C23 (as stated): presence dispatch.  A presence event from any sender, inside
\* or outside the allow-list, calls every registered sync presence handler and
\* then every registered async presence handler exactly once, whichever of them
\* raise, and the callback does not raise; it reads the presence mappings only,
\* and a message event reads the message mappings only.
C23_PresenceDispatch ==
    /\ [][(last'.op = "_on_presence" /\ disp.pc = "idle") =>
            \A sender \in PresenceSenders :
               _on_presence(sender)
                  => /\ disp'.why = "dispatched"
                     /\ disp'.sender = JidStr(sender)
                     /\ disp'.sync_called = NamesOf(_handlers.presence)
                     /\ disp'.async0 = NamesOf(_async_presence_handlers)
                     /\ disp'.err = "None"]_vars
    /\ [][(last'.op = "_on_message" /\ disp.pc = "idle" /\ disp'.why = "dispatched")
             => /\ disp'.sync_called = NamesOf(_handlers.message)
                /\ disp'.async0 = NamesOf(_async_message_handlers)]_vars
    /\ []((disp.pc = "done" /\ disp.kind = "presence")
             => /\ disp.sync_called = disp.sync0
                /\ disp.async_called = disp.async0
                /\ disp.err = "None")

\* C24 (as stated): every presence-subscribe request, whoever sends it and in
\* whatever state it arrives, ends without an exception with exactly one
\* 'subscribed' presence sent to the requester; no handler is called and no
\* state of the bot changes.
C24_SubscribeAlwaysApproved ==
    [][last'.op = "_on_presence_subscribe"
          => /\ last'.err = "None"
             /\ Len(out') = 1
             /\ out'[1].call = "send_presence"
             /\ out'[1].type = "subscribed"
             /\ out'[1].to = last'.to
             /\ UNCHANGED StateOfBot]_vars

\* C25 (as stated): the disconnected callback clears the connected flag and
\* leaves the initialized flag, the settings, the transport handle and the three
\* handler mappings as they are; and from then on, while the bot is initialized
\* and not connected, every step other than a disconnect keeps it so:
\* initialize() is rejected and reply_to_user ends with SendError.
C25_DisconnectedCallback ==
    /\ [][last'.op = "_on_disconnected"
             => /\ ~_connected'
                /\ UNCHANGED <<_initialized, _settings, _client, handlerVars>>]_vars
    /\ [][(/\ _initialized /\ ~_connected
           /\ last'.op \notin {"disconnect", "shutdown", "reset_instance"})
             => /\ _initialized'
                /\ \A m \in MessageTexts, jid \in Recipients :
                      reply_to_user_body("reply_to_user", m, jid, FALSE)'.res.err
                          = "SendError"]_vars

\* C26 (as stated): every invocation of the session-started callback first sends
\* the initial presence and then requests the roster, and ends with the
\* session-started marker set, whether or not the roster request failed; the
\* marker becomes true in no other step.
C26_SessionStartAlwaysMarks ==
    /\ [][(last'.op = "_on_session_start" /\ last'.err = "suspended")
             => /\ Len(out') = 2
                /\ out'[1].call = "send_presence"
                /\ out'[2].call = "get_roster"]_vars
    /\ [][(last'.op = "_on_session_start" /\ last'.err # "suspended")
             => _session_started']_vars
    /\ [][(~_session_started /\ _session_started')
             => last'.op = "_on_session_start"]_vars

\* C27 (as stated): the transport handle is present only while connected: in
\* every reachable state where is_connected is false the handle is absent.
C27_ClientOnlyWhileConnected == ~_connected => _client = NoClient

\* C27 (amended): the transport handle changes in three kinds of step only.
\* initialize() sets it to a new transport when it starts to connect;
\* disconnect() (also through shutdown or reset_instance) on an initialized bot
\* clears it; a newly constructed object has none.  A connect timeout, an auth
\* failure and the disconnected callback leave the handle as it is, and the
\* disconnected callback leaves the bot not connected with the handle present.
C27_ClientKeptUntilDisconnect ==
    /\ [][_client' # _client
             => \/ /\ last'.op = "initialize" /\ last'.err = "suspended"
                   /\ _client' # NoClient /\ _client' = nclients'
                   /\ nclients' = nclients + 1
                \/ /\ last'.op \in {"disconnect", "shutdown", "reset_instance"}
                   /\ _initialized /\ _client' = NoClient
                \/ /\ last'.op = "get_instance" /\ created' # created
                   /\ _client' = NoClient]_vars
    /\ [][(\/ /\ last'.op = "initialize"
              /\ last'.err \in {"ConnectionError", "AuthenticationError"}
           \/ last'.op \in {"_on_disconnected", "_on_failed_auth"})
             => _client' = _client]_vars
    /\ [][(last'.op = "_on_disconnected" /\ _client # NoClient)
             => ~_connected' /\ _client' # NoClient]_vars
    /\ [][(/\ _initialized
           /\ \/ last'.op \in {"disconnect", "shutdown"}
              \/ last'.op = "reset_instance" /\ cls_instance # 0)
             => ~_connected' /\ _client' = NoClient]_vars

\* C27 witness: initialize() has just ended in a connect timeout; the bot is not
\* connected and still holds the transport it had opened, now closed
C27_Witness ==
    /\ last.op = "initialize" /\ last.err = "ConnectionError"
    /\ ~_connected /\ ~_initialized
    /\ _client # NoClient /\ _client \notin open

\* C28: flush(timeout) ends and raises nothing.  It returns at once when the bot
\* is not connected, has no transport handle or the handle has no transport;
\* it returns at the first poll that finds the write buffer empty, and at the
\* first loop test at or after the deadline, whatever other steps (a disconnect
\* among them) are taken meanwhile; every flush in its poll loop returns; and no
\* step of flush changes a flag, the settings, the handle or a handler mapping.
C28_FlushTerminates ==
    /\ [][last'.op = "flush"
             => /\ last'.err \in {"None", "suspended"}
                /\ (last'.err = "None") = (flushing'.pc = "idle")
                /\ out' = <<>>
                /\ UNCHANGED <<singletonVars, botVars, envVars, tasks, roster_wait, disp>>]_vars
    /\ [][(last'.op = "flush" /\ flushing.pc = "idle") =>
            \A timeout \in FlushTimeouts, has_transport \in BOOLEAN, buf_empty \in BOOLEAN :
               flush(timeout, has_transport, buf_empty)
                  => /\ (_client = NoClient \/ ~_connected \/ ~has_transport
                            \/ timeout = 0 \/ buf_empty) => flushing'.pc = "idle"
                     /\ flushing'.pc = "polling" => flushing'.timeout = timeout]_vars
    /\ [][(last'.op = "flush" /\ flushing.pc = "polling") =>
            \A d \in 1..MaxSleepTicks, buf_empty \in BOOLEAN :
               flush_poll(d, buf_empty)
                  => /\ (buf_empty \/ flushing.elapsed + d >= flushing.timeout)
                            => flushing'.pc = "idle"
                     /\ flushing'.pc = "polling"
                            => /\ flushing'.elapsed > flushing.elapsed
                               /\ flushing'.elapsed < flushing'.timeout]_vars
    /\ (flushing.pc = "polling") ~> (flushing.pc = "idle")

\* C28 witness: a flush that began on a connected bot has polled a buffer that
\* never emptied and returned at its deadline, after the bot was disconnected
C28_Witness ==
    /\ last.op = "flush" /\ last.err = "None" /\ last.cause = "deadline"
    /\ last.val > 0
    /\ flushing.pc = "idle"
    /\ ~_connected /\ _client = NoClient

\* b without its trailing slashes, and p without its leading slashes
StripTrailing(b) ==
    LET k == CHOOSE k \in 0..Len(b) :
                 /\ k = 0 \/ b[k] # SLASH
                 /\ \A i \in (k + 1)..Len(b) : b[i] = SLASH
    IN  SubSeq(b, 1, k)
StripLeading(p) ==
    LET k == CHOOSE k \in 1..(Len(p) + 1) :
                 /\ k = Len(p) + 1 \/ p[k] # SLASH
                 /\ \A i \in 1..(k - 1) : p[i] = SLASH
    IN  SubSeq(p, k, Len(p))
ExpectedUrl(b, p) == StripTrailing(b) \o <<SLASH>> \o StripLeading(p)

\* C29: send_url(path) hands send_message, for the default recipient, the base
\* url without its trailing slashes, one slash, and the path without its leading
\* slashes: the first part does not end and the second does not begin with a
\* slash, for every base url (the empty one too) and every path.
C29_SendUrlJoins ==
    /\ [][last'.op = "build_url"
             => LET b == last'.to[1]
                    p == last'.to[2]
                    u == last'.to[3]
                    B == StripTrailing(b)
                    P == StripLeading(p)
                IN  /\ u = B \o <<SLASH>> \o P
                    /\ B = <<>> \/ B[Len(B)] # SLASH
                    /\ P = <<>> \/ P[1] # SLASH
                    /\ Len(u) = Len(B) + 1 + Len(P)
                    /\ u[Len(B) + 1] = SLASH]_vars
    /\ [][last'.op = "send_url" =>
            \A path \in Paths :
               (send_url(path) /\ out' # <<>>)
                  => /\ Len(out') = 1
                     /\ out'[1].call = "send_message"
                     /\ out'[1].to = SettingsTable[_settings].default_receiver
                     /\ out'[1].body = ExpectedUrl(SettingsTable[_settings].base_url, path)]_vars

\* C29 witness: a base url ending in two slashes joined with a path beginning
\* with two slashes gave a url with one slash between the parts
C29_Witness ==
    /\ last.op = "build_url"
    /\ last.to[1] = <<"w", SLASH, SLASH>>
    /\ last.to[2] = <<SLASH, SLASH, "p">>
    /\ last.to[3] = <<"w", SLASH, "p">>

\* C30: the disconnected state is re-enterable.  disconnect() on an initialized
\* bot leaves it not initialized, not connected, without a transport handle and
\* with the three handler mappings empty; an initialize() on a bot that is not
\* initialized is not rejected: it opens a transport that did not exist before
\* and resets the session-started and the auth-error marker; a turn of its wait
\* loop that is within the deadline and finds the session started ends it with
\* the bot initialized and connected; and a message event calls only handlers
\* that are registered when they are called, so none registered before the
\* disconnect and cleared by it.
C30_Reenterable ==
    /\ [][(last'.op = "disconnect" /\ _initialized)
             => /\ ~_initialized' /\ ~_connected' /\ _client' = NoClient
                /\ _handlers' = EmptyRegistry
                /\ _async_message_handlers' = EmptyDict
                /\ _async_presence_handlers' = EmptyDict]_vars
    /\ [][(last'.op = "initialize" /\ ~_initialized) =>
            \A s \in SettingsIds :
               initialize(s)
                  => /\ last'.err = "suspended"
                     /\ _client' # NoClient
                     /\ _client' \notin 1..nclients
                     /\ _client' \in open' \ open
                     /\ ~_session_started' /\ ~_auth_error'
                     /\ Len(out') = 1 /\ out'[1].call = "connect"
                     /\ out'[1].client = _client'
                     /\ UNCHANGED handlerVars]_vars
    /\ [][(last'.op = "initialize" /\ _session_started /\ ~_auth_error) =>
            \A t \in TaskIds, d \in 1..MaxSleepTicks :
               (_connect_poll(t, d) /\ tasks[t].elapsed + d <= tasks[t].timeout)
                  => /\ last'.err = "None"
                     /\ _initialized' /\ _connected']_vars
    /\ [][(last'.op = "_on_message" /\ disp'.why = "dispatched")
             => /\ disp.pc = "idle"
                    => disp'.sync_called = NamesOf(_handlers.message)
                /\ Len(disp'.async_called) > Len(disp.async_called)
                    => disp'.async_called[Len(disp'.async_called)]
                           \in KeysOf(_async_message_handlers)]_vars

\* C30 witness: the second initialize() of the instance was accepted and opened
\* transport 2 in the coroutine slot the first one had left by succeeding; the
\* bot had been disconnected in between (transport 1, whose close raised, is
\* still open) and holds no handler
C30_Witness ==
    /\ last.op = "initialize" /\ last.err = "suspended" /\ last.val = 1
    /\ _client = 2 /\ open = {1, 2}
    /\ ~_initialized /\ ~_connected /\ ~_session_started /\ ~_auth_error
    /\ _handlers = EmptyRegistry /\ _async_message_handlers = EmptyDict

\* C31 (as stated): lifecycle invariant.  In every reachable state, observed
\* between steps, a connected bot is initialized and holds a transport handle.
C31_ConnectedImpliesReady == _connected => (_initialized /\ _client # NoClient)

\* C32 (as stated): overlapping initialize calls are mutually excluded.  An
\* initialize() that starts while another is suspended in its connect wait ends
\* with AlreadyInitializedError and opens nothing, and no initialize() opens a
\* transport while one it opened before is still open.
C32_InitializeExcluded ==
    /\ [][(last'.op = "initialize" /\ ~NoInitInFlight) =>
            \A s \in SettingsIds :
               initialize(s) => /\ last'.err = "AlreadyInitializedError"
                                /\ open' = open /\ nclients' = nclients]_vars
    /\ [][(last'.op = "initialize" /\ open' # open /\ open' \ open # {})
             => \A t \in TaskIds : tasks[t].pc = "wait" => tasks[t].opened \notin open]_vars

\* C33 (as stated): no message is handed to the transport while the bot is not
\* connected.  Every step of send_message, reply_to_user, send_url or
\* send_message_sync that calls the transport's send_message is taken in a state
\* where the bot is initialized and connected.
C33_SendsOnlyWhileConnected ==
    [][(/\ last'.op \in {"send_message", "reply_to_user", "send_url", "send_message_sync"}
        /\ \E i \in 1..Len(out') : out'[i].call = "send_message")
          => _initialized /\ _connected]_vars

\* C34 (as stated): a failed initialize leaks no transport.  When the connect
\* wait of an initialize() ends in a connect timeout or an authentication
\* failure, the transport that initialize() opened is closed in that step; and
\* an initialize() that is accepted never replaces a handle that is still open.
C34_FailedInitializeClosesTransport ==
    /\ [][(/\ last'.op = "initialize"
           /\ last'.err \in {"ConnectionError", "AuthenticationError"}) =>
            \A t \in TaskIds, d \in 1..MaxSleepTicks :
               _connect_poll(t, d) => tasks[t].opened \notin open']_vars
    /\ [][(last'.op = "initialize" /\ last'.err = "suspended" /\ nclients' # nclients)
             => _client \notin open]_vars

\* C35 (as stated): is_connected follows the transport session.  A
\* session-started callback that completes on an initialized bot leaves the bot
\* connected, and the connected flag is cleared only by the disconnected
\* callback or a disconnect.
C35_ConnectedFollowsSession ==
    /\ [][(last'.op = "_on_session_start" /\ last'.err = "None" /\ _initialized)
             => _connected']_vars
    /\ [][(_connected /\ ~_connected')
             => last'.op \in {"_on_disconnected", "disconnect", "shutdown",
                              "reset_instance", "get_instance"}]_vars

\* disconnect() has returned on a bot that was initialized, and no initialize()
\* has started or succeeded since
TornDown == nclients > 0 /\ _client = NoClient /\ ~_initialized

\* C36 (as stated): events from a torn-down transport are inert.  After
\* disconnect() and before the next initialize, a message, presence,
\* presence-subscribe or session-started event that is still delivered raises
\* nothing, sends nothing, calls no handler (one registered after the
\* disconnect included) and changes no flag.
C36_TornDownEventsInert ==
    [][(/\ TornDown
        /\ \/ last'.op \in {"_on_message", "_on_presence"} /\ disp.pc = "idle"
           \/ last'.op = "_on_session_start" /\ ~roster_wait
           \/ last'.op = "_on_presence_subscribe")
          => /\ last'.err \in {"None", "suspended"}
             /\ disp'.err = "None"
             /\ disp'.sync_called = <<>> /\ disp'.async_called = <<>>
             /\ out' = <<>>
             /\ ~roster_wait'
             /\ UNCHANGED <<singletonVars, botVars, envVars>>]_vars

\* C37 (as stated): a failed initialize can be retried.  When an initialize()
\* ends in a connect timeout or an authentication error, the bot is not
\* initialized and not connected and the handler mappings are as before; and an
\* initialize() that directly follows is not rejected: it opens a new transport
\* and calls connect() on it.
C37_FailedInitializeRetry ==
    /\ [][(/\ last'.op = "initialize"
           /\ last'.err \in {"ConnectionError", "AuthenticationError"})
             => /\ ~_initialized' /\ ~_connected'
                /\ UNCHANGED handlerVars]_vars
    /\ [][(/\ last.op = "initialize"
           /\ last.err \in {"ConnectionError", "AuthenticationError"}
           /\ last'.op = "initialize") =>
            \A s \in SettingsIds :
               initialize(s)
                  => /\ last'.err = "suspended"
                     /\ _client' = nclients + 1 /\ _client' \in open'
                     /\ Len(out') = 1 /\ out'[1].call = "connect"]_vars

\* C38 (as stated): every entry of an allow-list is itself allowed.  For every
\* allow-list and every address in it that the address pattern accepts, an
\* entry with a resource part too, is_jid_allowed of that address is true.
C38_AllowListEntriesAllowed ==
    [][last'.op = "is_jid_allowed" =>
         \A al \in AllowLists, jid \in Candidates :
            (/\ Settings_is_jid_allowed(al, jid)
             /\ ~al.unset /\ jid \in al.jids /\ _validate_jid(jid) = "None")
               => last'.val = 1]_vars

====
